---- MODULE Spec2Model ----
(***************************************************************************)
(* A model of chem-autotutor's build.py: the name translator               *)
(* (name_to_smiles), the fact computer (compute_facts, formula_du), the    *)
(* narrative composer (make_bullets_from_name, make_script) and the        *)
(* pipeline of main().                                                     *)
(*                                                                         *)
(* Text is modelled as sequences of one-character strings, so that         *)
(* str.strip, str.split, re.findall and the substring test "kw in name"    *)
(* are computed character by character as Python computes them.           *)
(***************************************************************************)
EXTENDS Integers, Sequences, FiniteSets, TLC

VARIABLES
    f_pc,       \* compute_facts: "call" before the call, "ret" after it
    f_mol,      \* compute_facts: the molecule handed in (its composition)
    f_ret,      \* compute_facts: the returned facts and the parsed counts
    s_pc,       \* make_script: "call" before the call, "ret" after it
    s_in,       \* make_script: its arguments (title, formula, mw, smiles, du)
    s_ret,      \* make_script: the returned (voiceover, srt)
    b_pc,       \* main lines 285-287: "call" before them, "ret" after them
    b_args,     \* main lines 285-287: args.name (None when not given) and du
    b_ret,      \* main lines 285-287: the bullet list handed to render_html
    n_pc,       \* name_to_smiles: the statement it is at
    n_name,     \* name_to_smiles: its argument
    tmp,        \* name_to_smiles: the content of its two temporary files
    n_smi,      \* name_to_smiles: the value to return
    n_exc,      \* name_to_smiles: the exception raised ("" for none)
    n_exit,     \* name_to_smiles: how the external process ended
    n_created,  \* name_to_smiles: the temporary files mkstemp has created
    n_read,     \* name_to_smiles: the text read from the response file
    slugify_bound, \* main: whether the module's namespace binds the name slugify
    args,       \* main: each run's parsed command line
    pc,         \* main: the statement each run is at
    exc,        \* main: the exception that ended each run ("" for none)
    m_smiles,   \* main: each run's local smiles
    m_mol,      \* main: each run's local mol
    m_facts,    \* main: each run's locals formula, mw, du
    m_bullets,  \* main: each run's local bullets
    dirs,       \* the output directories on disk
    files,      \* the files of each output directory
    written,    \* the files each run has written in full
    last_writer \* for each file, the run that last completed a write of it

factsVars == <<f_pc, f_mol, f_ret>>
scriptVars == <<s_pc, s_in, s_ret>>
bulletVars == <<b_pc, b_args, b_ret>>
ntsVars == <<n_pc, n_name, tmp, n_smi, n_exc, n_exit, n_created, n_read>>
mainVars == <<slugify_bound, args, pc, exc, m_smiles, m_mol, m_facts, m_bullets, dirs, files,
              written, last_writer>>
vars == <<factsVars, scriptVars, bulletVars, ntsVars, mainVars>>

\* What each part of the model leaves alone.
notFacts == <<scriptVars, bulletVars, ntsVars, mainVars>>
notScript == <<factsVars, bulletVars, ntsVars, mainVars>>
notBullets == <<factsVars, scriptVars, ntsVars, mainVars>>
notNts == <<factsVars, scriptVars, bulletVars, mainVars>>
notMain == <<factsVars, scriptVars, bulletVars, ntsVars>>

\* Python's None, as a value comparable with a character sequence.
None == <<"None">>

------------------------------------------------------------------------------
(* Characters                                                              *)

DigitChars == <<"0", "1", "2", "3", "4", "5", "6", "7", "8", "9">>
Digit == {DigitChars[k] : k \in 1..10}
Upper == {"C", "H", "N", "O", "F", "B", "I", "S"}
Lower == {"l", "r"}

DigitVal(c) == (CHOOSE k \in 1..10 : DigitChars[k] = c) - 1

\* str(n) for n >= 0.
RECURSIVE Decimal(_)
Decimal(n) ==
    IF n < 10 THEN <<DigitChars[n + 1]>>
    ELSE Decimal(n \div 10) \o <<DigitChars[(n % 10) + 1]>>

\* int(v) for a non-empty digit string v (line 129).
RECURSIVE int(_)
int(v) ==
    IF Len(v) = 0 THEN 0
    ELSE int(SubSeq(v, 1, Len(v) - 1)) * 10 + DigitVal(v[Len(v)])

------------------------------------------------------------------------------
(* compute_facts (lines 106-140) and formula_du (lines 94-104)             *)

\* The element symbols of the modelled molecules, in the order in which
\* CalcMolFormula writes them (Hill order: C, H, then alphabetical).
HillOrder ==
    << <<"C">>, <<"H">>, <<"B">>, <<"B", "r">>, <<"C", "l">>,
       <<"F">>, <<"I">>, <<"N">>, <<"O">> >>
Symbols == {HillOrder[k] : k \in 1..Len(HillOrder)}

\* The atom counts a modelled molecule may have of one element.
CountValues == {1, 2, 6, 8, 12}
\* The largest number of distinct elements in a modelled molecule.
MaxElems == 3
\* The net charges of the modelled molecules.
Charges == {0, 1}

\* A molecule, as far as compute_facts can see it: the count of every
\* element present, and the net charge.
Molecules ==
    { [atoms |-> a, charge |-> q] :
        a \in UNION { [S -> CountValues] :
                        S \in {T \in SUBSET Symbols : Cardinality(T) <= MaxElems} },
        q \in Charges }

\* The molecule's true count of an element (0 when absent).
AtomCount(mol, sym) ==
    IF sym \in DOMAIN mol.atoms THEN mol.atoms[sym] ELSE 0

\* rdMolDescriptors.CalcMolFormula (line 113): the compact formula, e.g.
\* 'C8H12Br' (line 117): each symbol present, its count when above 1, and
\* the charge sign at the end.
RECURSIVE FormulaFrom(_, _)
FormulaFrom(mol, k) ==
    IF k > Len(HillOrder) THEN (IF mol.charge = 1 THEN <<"+">> ELSE <<>>)
    ELSE LET sym == HillOrder[k]
             n == AtomCount(mol, sym)
         IN (IF n = 0 THEN <<>>
             ELSE IF n = 1 THEN sym
             ELSE sym \o Decimal(n)) \o FormulaFrom(mol, k + 1)

CalcMolFormula(mol) == FormulaFrom(mol, 1)

\* The maximal run of digits of s from position i: the regex group (\d*).
RECURSIVE DigitRun(_, _)
DigitRun(s, i) ==
    IF i <= Len(s) /\ s[i] \in Digit THEN <<s[i]>> \o DigitRun(s, i + 1)
    ELSE <<>>

\* A variant of the scan whose symbol pattern is [A-Z] alone.
RECURSIVE findall_one_letter(_, _)
findall_one_letter(s, i) ==
    IF i > Len(s) THEN <<>>
    ELSE IF s[i] \in Upper
         THEN LET digs == DigitRun(s, i + 1)
              IN << <<(<<s[i]>>), digs>> >>
                    \o findall_one_letter(s, i + 1 + Len(digs))
         ELSE findall_one_letter(s, i + 1)

\* re.findall(r'([A-Z][a-z]?)(\d*)', formula) from position i (line 119):
\* the non-overlapping matches left to right, each a (symbol, digits) pair;
\* a character no match starts at is skipped.
RECURSIVE findall(_, _)
findall(s, i) ==
    IF i > Len(s) THEN <<>>
    ELSE IF s[i] \in Upper
         THEN LET sym == IF i + 1 <= Len(s) /\ s[i + 1] \in Lower
                         THEN <<s[i], s[i + 1]>> ELSE <<s[i]>>
                  digs == DigitRun(s, i + Len(sym))
              IN << <<sym, digs>> >> \o findall(s, i + Len(sym) + Len(digs))
         ELSE findall(s, i + 1)

\* dict(pairs).get(sym) (lines 119, 126): the value of the last pair with
\* that key, None when there is none.
RECURSIVE dict_get(_, _)
dict_get(pairs, sym) ==
    IF Len(pairs) = 0 THEN None
    ELSE IF pairs[Len(pairs)][1] = sym THEN pairs[Len(pairs)][2]
    ELSE dict_get(SubSeq(pairs, 1, Len(pairs) - 1), sym)

\* get(sym) (lines 121-129), with the dict it closes over made explicit.
get(counts, sym) ==
    LET v == dict_get(counts, sym)
    IN IF v = None THEN 0
       ELSE IF v # <<>> THEN int(v) ELSE 1

\* A variant of formula_du that divides with floor division (//).
formula_du_floordiv(nC, nH, nN, nX) ==
    LET h_equiv == nH + nX - nN
    IN 2 * (1 + nC - (h_equiv \div 2))

\* formula_du (lines 94-104).  The Python value 1 + nC - h_equiv / 2 is a
\* float that is an exact multiple of one half; it is represented by its
\* number of halves, 2 * DU.
formula_du(nC, nH, nN, nX) ==
    LET h_equiv == nH + nX - nN
    IN 2 * (1 + nC) - h_equiv

\* compute_facts (lines 106-140).  The exact mass is the engine's and is
\* kept opaque.  The element counts read at lines 131-137 are returned
\* along with the facts so that they can be observed.
compute_facts(mol) ==
    LET formula == CalcMolFormula(mol)
        counts == findall(formula, 1)
        nC == get(counts, <<"C">>)
        nH == get(counts, <<"H">>)
        nN == get(counts, <<"N">>)
        nF == get(counts, <<"F">>)
        nCl == get(counts, <<"C", "l">>)
        nBr == get(counts, <<"B", "r">>)
        nI == get(counts, <<"I">>)
    IN [formula |-> formula, mw |-> "mw",
        du |-> formula_du(nC, nH, nN, nF + nCl + nBr + nI),
        n |-> [C |-> nC, H |-> nH, N |-> nN, F |-> nF,
               Cl |-> nCl, Br |-> nBr, I |-> nI],
        nB |-> get(counts, <<"B">>)]

NoFacts == [formula |-> <<>>, mw |-> "mw", du |-> 0,
            n |-> [C |-> 0, H |-> 0, N |-> 0, F |-> 0, Cl |-> 0, Br |-> 0, I |-> 0],
            nB |-> 0]

------------------------------------------------------------------------------
(* make_script (lines 200-221)                                             *)

\* f"{t:02d}" for t >= 0: the decimal digits, zero-padded to width 2.
Fmt02d(t) == IF t < 10 THEN <<"0">> \o Decimal(t) ELSE Decimal(t)

\* f"{du:.1f}" for a float that is a multiple of one half, given as its
\* number of halves (lines 208, 287).
Fmt1f(du) ==
    LET a == IF du < 0 THEN -du ELSE du
    IN (IF du < 0 THEN <<"-">> ELSE <<>>)
         \o Decimal(a \div 2) \o <<".">> \o (IF a % 2 = 1 THEN <<"5">> ELSE <<"0">>)

\* A variant of the caption block whose window closes after 2 seconds.
srt_block_short(i, t, line) ==
    [index |-> Decimal(i),
     start |-> <<"0", "0", ":", "0", "0", ":">> \o Fmt02d(t) \o <<",", "0", "0", "0">>,
     end   |-> <<"0", "0", ":", "0", "0", ":">> \o Fmt02d(t + 2) \o <<",", "0", "0", "0">>,
     text  |-> line]

\* One caption block (lines 217-219):
\* f"{i}\n00:00:{t:02d},000 --> 00:00:{t+3:02d},000\n{line}\n".
srt_block(i, t, line) ==
    [index |-> Decimal(i),
     start |-> <<"0", "0", ":", "0", "0", ":">> \o Fmt02d(t) \o <<",", "0", "0", "0">>,
     end   |-> <<"0", "0", ":", "0", "0", ":">> \o Fmt02d(t + 3) \o <<",", "0", "0", "0">>,
     text  |-> line]

\* The loop of lines 215-220, from its i-th iteration with the clock at t.
RECURSIVE srt_lines(_, _, _)
srt_lines(bullets, i, t) ==
    IF i > Len(bullets) THEN <<>>
    ELSE <<srt_block(i, t, bullets[i])>> \o srt_lines(bullets, i + 1, t + 3)

\* make_script (lines 200-221).  The voiceover is its lines, newline-joined;
\* the SRT text is its blocks, newline-joined.
make_script(title, formula, mw, smiles, du) ==
    LET bullets ==
          << [line |-> "Title", fields |-> <<title>>],
             [line |-> "Formula", fields |-> <<formula, mw, smiles>>],
             [line |-> "Unsaturation", fields |-> <<Fmt1f(du)>>],
             [line |-> "Naming checklist", fields |-> <<>>] >>
    IN [voiceover |-> bullets, srt |-> srt_lines(bullets, 1, 0)]

\* The arguments make_script is applied to.
ScriptInputs ==
    [title : {"ethanol", "CCO"},
     formula : { <<"C", "H", "4">>, <<"C", "2", "H", "6", "O">>,
                 <<"C", "8", "H", "1", "2", "B", "r">> },
     mw : {"mw"},
     smiles : {"CCO", "C#C"},
     du : -3 .. 5]

CallMakeScript ==
    /\ s_pc = "call"
    /\ UNCHANGED notScript
    /\ s_pc' = "ret"
    /\ s_ret' = make_script(s_in.title, s_in.formula, s_in.mw, s_in.smiles, s_in.du)
    /\ UNCHANGED s_in

------------------------------------------------------------------------------
(* make_bullets_from_name (lines 176-198) and main lines 285-287           *)

\* The keyword tests of lines 184-197 in the order of the code, each with
\* the sentence it appends (the sentences are written in ASCII).
KeywordScan ==
    << [kw |-> <<"m", "e", "t", "h">>, text |-> "Parent chain includes: meth- (1 carbon)."],
       [kw |-> <<"e", "t", "h">>, text |-> "Parent chain includes: eth- (2 carbons)."],
       [kw |-> <<"p", "r", "o", "p">>, text |-> "Parent chain includes: prop- (3 carbons)."],
       [kw |-> <<"b", "u", "t">>, text |-> "Parent chain includes: but- (4 carbons)."],
       [kw |-> <<"p", "e", "n", "t">>, text |-> "Parent chain includes: pent- (5 carbons)."],
       [kw |-> <<"h", "e", "x">>, text |-> "Parent chain includes: hex- (6 carbons)."],
       [kw |-> <<"h", "e", "p", "t">>, text |-> "Parent chain includes: hept- (7 carbons)."],
       [kw |-> <<"o", "c", "t">>, text |-> "Parent chain includes: oct- (8 carbons)."],
       [kw |-> <<"n", "o", "n">>, text |-> "Parent chain includes: non- (9 carbons)."],
       [kw |-> <<"d", "e", "c">>, text |-> "Parent chain includes: dec- (10 carbons)."],
       [kw |-> <<"e", "n">>, text |-> "Contains a C=C double bond (-en-)."],
       [kw |-> <<"y", "n">>, text |-> "Contains a C#C triple bond (-yn-)."],
       [kw |-> <<"m", "e", "t", "h", "y", "l">>, text |-> "Has a methyl (-CH3) substituent."],
       [kw |-> <<"b", "r", "o", "m", "o">>, text |-> "Has a bromine substituent."] >>

\* Python's "kw in name" for strings.
Contains(name, kw) ==
    \E i \in 1 .. (Len(name) - Len(kw) + 1) : SubSeq(name, i, i + Len(kw) - 1) = kw

\* Python's truth value of args.name: None and "" are false.
Truthy(name) == name # None /\ name # <<>>

\* Lines 184-197 from the k-th test on.
RECURSIVE scan_keywords(_, _)
scan_keywords(name, k) ==
    IF k > Len(KeywordScan) THEN <<>>
    ELSE (IF Contains(name, KeywordScan[k].kw) THEN <<KeywordScan[k]>> ELSE <<>>)
           \o scan_keywords(name, k + 1)

\* make_bullets_from_name (lines 176-198).
make_bullets_from_name(name) ==
    IF ~Truthy(name) THEN <<>> ELSE scan_keywords(name, 1)

\* The bullet of line 287: f"Double-bond equivalents (DU): {du:.1f}".
DuBullet(du) == [kw |-> <<"D", "U">>, text |-> <<"Double-bond equivalents (DU): ", Fmt1f(du)>>]

\* A variant of lines 285-287 that puts the DU bullet first.
main_bullets_du_first(name, du) ==
    LET bullets == IF Truthy(name) THEN make_bullets_from_name(name) ELSE <<>>
    IN <<DuBullet(du)>> \o bullets

\* main, lines 285-287: the bullets handed to render_html.
main_bullets(name, du) ==
    LET bullets == IF Truthy(name) THEN make_bullets_from_name(name) ELSE <<>>
    IN bullets \o <<DuBullet(du)>>

\* The pieces names are put together from: the keywords and a few others.
Fragments ==
    {KeywordScan[k].kw : k \in 1 .. Len(KeywordScan)}
      \cup { <<"a", "n">>, <<"e">>, <<"y", "l">>, <<"-">>, <<"n">>, <<"m">> }

\* The largest number of fragments in a modelled name.
MaxFrags == 2

RECURSIVE NamesUpTo(_)
NamesUpTo(k) ==
    IF k = 0 THEN {<<>>}
    ELSE LET shorter == NamesUpTo(k - 1)
         IN shorter \cup {n \o f : n \in shorter, f \in Fragments}

MainBullets ==
    /\ b_pc = "call"
    /\ UNCHANGED notBullets
    /\ b_pc' = "ret"
    /\ b_ret' = main_bullets(b_args.name, b_args.du)
    /\ UNCHANGED b_args

------------------------------------------------------------------------------
(* name_to_smiles (lines 45-73)                                            *)

\* A file that is not on disk.
Absent == None

\* Python's whitespace, as far as the modelled texts hold any.
Whitespace == {" ", "\t", "\n"}

\* str.strip().
RECURSIVE lstrip(_)
lstrip(s) ==
    IF Len(s) > 0 /\ s[1] \in Whitespace THEN lstrip(SubSeq(s, 2, Len(s))) ELSE s
RECURSIVE rstrip(_)
rstrip(s) ==
    IF Len(s) > 0 /\ s[Len(s)] \in Whitespace THEN rstrip(SubSeq(s, 1, Len(s) - 1)) ELSE s
strip(s) == rstrip(lstrip(s))

\* str.splitlines(): the lines between the line breaks, no empty last line.
RECURSIVE splitlines(_)
splitlines(s) ==
    IF Len(s) = 0 THEN <<>>
    ELSE IF \E k \in 1 .. Len(s) : s[k] = "\n"
         THEN LET k == CHOOSE j \in 1 .. Len(s) :
                          s[j] = "\n" /\ \A h \in 1 .. (j - 1) : s[h] # "\n"
              IN <<SubSeq(s, 1, k - 1)>> \o splitlines(SubSeq(s, k + 1, Len(s)))
         ELSE <<s>>

\* str.split(): the maximal runs of non-whitespace characters.
RECURSIVE split(_)
split(s) ==
    LET t == lstrip(s)
    IN IF Len(t) = 0 THEN <<>>
       ELSE LET n == CHOOSE j \in 1 .. Len(t) :
                         /\ \A h \in 1 .. j : t[h] \notin Whitespace
                         /\ (j = Len(t) \/ t[j + 1] \in Whitespace)
            IN <<SubSeq(t, 1, n)>> \o split(SubSeq(t, n + 1, Len(t)))

\* Lines 64-69 on the text read from the response file: the exception
\* raised ("" for none) and the value returned.
parse_response(text) ==
    LET out == strip(text)
        lines == splitlines(out)
    IN IF Len(lines) = 0 THEN [exc |-> "IndexError", smi |-> None]
       ELSE LET tokens == split(lines[1])
            IN IF Len(tokens) = 0 THEN [exc |-> "IndexError", smi |-> None]
               ELSE IF tokens[1] = <<>>
                    THEN [exc |-> "RuntimeError: OPSIN returned empty SMILES", smi |-> None]
                    ELSE [exc |-> "", smi |-> tokens[1]]

\* os.unlink(p) (line 72): the file is removed; a file that is not there
\* raises FileNotFoundError, an OSError.
os_unlink(fs, p) ==
    IF fs[p] = Absent THEN [fs |-> fs, exc |-> "FileNotFoundError"]
    ELSE [fs |-> [fs EXCEPT ![p] = Absent], exc |-> ""]

\* A variant in which an exception in the body leaves the function at once.
ExceptionTargetNoFinally == "exit"

\* Where an exception raised in the try body (lines 57-69) continues: the
\* finally block (line 70).
ExceptionTarget == "unlink_in"

\* The characters of the modelled response files.
RespChars == {"C", " ", "\t", "\n"}
\* The longest modelled response file.
MaxResp == 3

RECURSIVE TextsUpTo(_)
TextsUpTo(k) ==
    IF k = 0 THEN {<<>>}
    ELSE LET shorter == TextsUpTo(k - 1)
         IN shorter \cup {t \o <<c>> : t \in shorter, c \in RespChars}

Responses == TextsUpTo(MaxResp)

\* The names name_to_smiles is called with.
NtsNames == { <<"e", "t", "h", "a", "n", "o", "l">>, <<" ", "e", "t", "h", "y", "n", "e", "\n">> }

NoTmp == [p \in {"in", "out"} |-> Absent]

\* Line 53: tempfile.mkstemp(prefix="opsin_in_").
mkstemp_in ==
    /\ n_pc = "mkstemp_in"
    /\ UNCHANGED notNts
    /\ \/ /\ tmp' = [tmp EXCEPT !["in"] = <<>>]
          /\ n_created' = n_created \cup {"in"}
          /\ n_pc' = "mkstemp_out"
          /\ UNCHANGED n_exc
       \/ /\ n_exc' = "OSError"
          /\ n_pc' = "raised"
          /\ UNCHANGED <<tmp, n_created>>
    /\ UNCHANGED <<n_name, n_smi, n_exit, n_read>>

\* Lines 54-55: tempfile.mkstemp(prefix="opsin_out_"), and both descriptors
\* closed.  Closing the descriptor of a file just created does not fail.
mkstemp_out ==
    /\ n_pc = "mkstemp_out"
    /\ UNCHANGED notNts
    /\ \/ /\ tmp' = [tmp EXCEPT !["out"] = <<>>]
          /\ n_created' = n_created \cup {"out"}
          /\ n_pc' = "write_request"
          /\ UNCHANGED n_exc
       \/ /\ n_exc' = "OSError"
          /\ n_pc' = "raised"
          /\ UNCHANGED <<tmp, n_created>>
    /\ UNCHANGED <<n_name, n_smi, n_exit, n_read>>

\* Line 58: the request file is written.
write_request ==
    /\ n_pc = "write_request"
    /\ UNCHANGED notNts
    /\ \/ /\ tmp' = [tmp EXCEPT !["in"] = strip(n_name) \o <<"\n">>]
          /\ n_pc' = "check_call"
          /\ UNCHANGED n_exc
       \/ /\ n_exc' = "OSError"
          /\ n_pc' = ExceptionTarget
          /\ UNCHANGED tmp
    /\ UNCHANGED <<n_name, n_smi, n_exit, n_created, n_read>>

\* Lines 59-62: subprocess.check_call of the external translator.  It exits
\* zero, leaving a response (or having removed the response file); or it
\* exits non-zero (CalledProcessError), the response file left empty or
\* removed; or java cannot be started (FileNotFoundError).
check_call ==
    /\ n_pc = "check_call"
    /\ UNCHANGED notNts
    /\ \/ /\ \E resp \in Responses \cup {Absent} : tmp' = [tmp EXCEPT !["out"] = resp]
          /\ n_exit' = "zero"
          /\ n_pc' = "read_response"
          /\ UNCHANGED n_exc
       \/ /\ \E resp \in {<<>>, Absent} : tmp' = [tmp EXCEPT !["out"] = resp]
          /\ n_exit' = "nonzero"
          /\ n_exc' = "CalledProcessError"
          /\ n_pc' = ExceptionTarget
       \/ /\ n_exit' = "not started"
          /\ n_exc' = "FileNotFoundError"
          /\ n_pc' = ExceptionTarget
          /\ UNCHANGED tmp
    /\ UNCHANGED <<n_name, n_smi, n_created, n_read>>

\* Lines 64-69: the response file is read and the first token of its first
\* line taken; a return enters the finally block like an exception does.
read_response ==
    /\ n_pc = "read_response"
    /\ UNCHANGED notNts
    /\ \/ /\ tmp["out"] = Absent
          /\ n_exc' = "FileNotFoundError"
          /\ n_pc' = ExceptionTarget
          /\ UNCHANGED <<n_smi, n_read>>
       \/ /\ tmp["out"] # Absent
          /\ n_read' = tmp["out"]
          /\ LET r == parse_response(n_read')
             IN /\ n_exc' = r.exc
                /\ n_smi' = r.smi
                /\ n_pc' = IF r.exc = "" THEN "unlink_in" ELSE ExceptionTarget
    /\ UNCHANGED <<n_name, tmp, n_exit, n_created>>

\* Lines 71-73, first iteration: the request file is unlinked, an OSError
\* swallowed.
unlink_in ==
    /\ n_pc = "unlink_in"
    /\ UNCHANGED notNts
    /\ tmp' = os_unlink(tmp, "in").fs
    /\ n_pc' = "unlink_out"
    /\ UNCHANGED <<n_name, n_smi, n_exc, n_exit, n_created, n_read>>

\* Lines 71-73, second iteration: the response file is unlinked, an OSError
\* swallowed; then the function returns or the exception propagates.
unlink_out ==
    /\ n_pc = "unlink_out"
    /\ UNCHANGED notNts
    /\ tmp' = os_unlink(tmp, "out").fs
    /\ n_pc' = "exit"
    /\ UNCHANGED <<n_name, n_smi, n_exc, n_exit, n_created, n_read>>

\* The function is left: a return (line 69) or the propagating exception.
nts_exit ==
    /\ n_pc = "exit"
    /\ UNCHANGED notNts
    /\ n_pc' = IF n_exc = "" THEN "returned" ELSE "raised"
    /\ UNCHANGED <<n_name, tmp, n_smi, n_exc, n_exit, n_created, n_read>>

------------------------------------------------------------------------------
(* main (lines 242-302) and the functions it calls                         *)

\* The concurrent invocations of main.
Runs == {1, 2}

\* The command lines: exactly one of --name, --smiles, --inchi, --formula
\* (lines 244-248); --out is left at its default.
NameArgs == { <<"e", "t", "h", "y", "n", "e">>,
              <<"b", "r", "o", "m", "o", "m", "e", "t", "h", "a", "n", "e">> }
SmilesArgs == { <<"C", "#", "C">>, <<"C", "C", "O">>, <<"C", "(">> }
InchiArgs == { <<"I", "n", "C", "h", "I", "=", "1", "S", "/", "C", "H", "4">>,
               <<"I", "n", "C", "h", "I", "=">> }
FormulaArgs == { <<"C", "8", "H", "1", "2", "B", "r">> }

ArgsSet ==
    [kind : {"name"}, value : NameArgs] \cup [kind : {"smiles"}, value : SmilesArgs]
      \cup [kind : {"inchi"}, value : InchiArgs]
      \cup [kind : {"formula"}, value : FormulaArgs]

\* args.name (None unless --name was given).
ArgName(a) == IF a.kind = "name" THEN a.value ELSE None

\* slugify is called at line 254 and defined nowhere in build.py: what it
\* returns when the caller's environment binds the name.
slugify(title) == [slug |-> title]

\* Line 254: Path(args.out) / slugify(title).
OutDir(a) == [out |-> "out", name |-> slugify(a.value)]

Dirs == {OutDir(a) : a \in ArgsSet}

FileNames == {"index.html", "structure.png", "model.sdf", "voiceover.txt",
              "captions.srt", "YOUTUBE_DESCRIPTION.md", "README.txt"}

\* A file of an output directory: the run whose write left its content
\* (0: the file is not there) and whether that write was completed.
NoFile == [by |-> 0, whole |-> FALSE]

\* A variant of the write that keeps a file that is already there.
write_text_keep_existing(fs, d, f, r) ==
    IF fs[d][f] # NoFile THEN fs
    ELSE [fs EXCEPT ![d][f] = [by |-> r, whole |-> TRUE]]

\* Path.write_text (lines 152, 240, 277, 292, 293, 298) and Draw.MolToFile
\* (line 157), completed: the file holds what run r wrote, whatever it held.
write_text(fs, d, f, r) == [fs EXCEPT ![d][f] = [by |-> r, whole |-> TRUE]]

\* A write that fails: the file was not opened, or was opened (created or
\* truncated) and not written to the end.
FailedWrites(fs, d, f, r) ==
    {fs, [fs EXCEPT ![d][f] = [by |-> r, whole |-> FALSE]]}

\* A variant in which a failing run removes what is in its output directory.
files_after_exception_cleanup(fs, d) ==
    [fs EXCEPT ![d] = [f \in FileNames |-> NoFile]]

\* main has no exception handler (lines 242-302): an exception leaves the
\* output directory as it is.
files_after_exception(fs, d) == fs

\* Chem.MolFromSmiles / Chem.MolFromInchi followed by Chem.AddHs (lines
\* 86-91), on the modelled inputs: the molecule, or None when the engine
\* cannot parse the text.
NoMol == [atoms |-> <<>>, charge |-> -1]
Alkane(k) == [atoms |-> (<<"C">> :> k) @@ (<<"H">> :> (2 * k + 2)), charge |-> 0]
ParseStructure(text) ==
    CASE text = <<"C", "#", "C">> -> [atoms |-> (<<"C">> :> 2) @@ (<<"H">> :> 2), charge |-> 0]
      [] text = <<"C", "C", "O">> ->
            [atoms |-> (<<"C">> :> 2) @@ (<<"H">> :> 6) @@ (<<"O">> :> 1), charge |-> 0]
      [] text = <<"I", "n", "C", "h", "I", "=", "1", "S", "/", "C", "H", "4">> -> Alkane(1)
      [] Len(text) > 0 /\ \A i \in 1 .. Len(text) : text[i] = "C" -> Alkane(Len(text))
      [] OTHER -> NoMol

\* The ways a call of name_to_smiles can end (lines 45-73): a failure to make
\* or write the temporary files, the external process failing or missing, or
\* what lines 64-69 make of the response.
name_to_smiles_outcomes ==
    { [exc |-> e, smi |-> None] : e \in {"OSError", "CalledProcessError", "FileNotFoundError"} }
      \cup {parse_response(t) : t \in Responses}

\* The exceptions that come from main's own code, not from a collaborator.
OwnErrors == {"NameError", "UnboundLocalError"}

\* The locals of main that are assigned before line 264 on the formula-only
\* path (lines 253-263), and those the call at lines 264-275 reads.
FormulaPathAssigned == {"args", "title", "outdir", "sdf", "bullets"}
RenderCallReads == {"title", "smiles", "formula", "mw", "sdf", "bullets", "du", "outdir", "args"}

\* An uncaught exception e ends run r in directory d, the disk left as fs.
Raise(r, e, fs) ==
    /\ pc' = [pc EXCEPT ![r] = "failed"]
    /\ exc' = [exc EXCEPT ![r] = e]
    /\ files' = files_after_exception(fs, OutDir(args[r]))
    /\ UNCHANGED <<slugify_bound, args, m_smiles, m_mol, m_facts, m_bullets, dirs, written, last_writer>>

\* Run r writes file f in full and goes on at `next`.
Wrote(r, f, next) ==
    /\ files' = write_text(files, OutDir(args[r]), f, r)
    /\ written' = [written EXCEPT ![r] = @ \cup {f}]
    /\ last_writer' = [last_writer EXCEPT ![OutDir(args[r])][f] = r]
    /\ pc' = [pc EXCEPT ![r] = next]
    /\ UNCHANGED <<slugify_bound, args, exc, m_smiles, m_mol, m_facts, m_bullets, dirs>>

\* Lines 253-254: the title, slugify(title) and ensure_out (lines 37-43).
Start(r) ==
    /\ pc[r] = "start"
    /\ UNCHANGED notMain
    /\ \/ /\ ~slugify_bound
          /\ Raise(r, "NameError", files)
       \/ /\ slugify_bound
          /\ Raise(r, "OSError", files)
       \/ /\ slugify_bound
          /\ dirs' = dirs \cup {OutDir(args[r])}
          /\ pc' = [pc EXCEPT ![r] = IF args[r].kind = "formula"
                                      THEN "formula_only" ELSE "mol_from_any"]
          /\ UNCHANGED <<slugify_bound, args, exc, m_smiles, m_mol, m_facts, m_bullets,
                         files, written, last_writer>>

\* Lines 256-279, the formula-only branch.  The arguments of the call at
\* lines 264-275 are evaluated first; a local that was never assigned raises
\* UnboundLocalError.  Otherwise index.html and README.txt are written.
FormulaOnly(r) ==
    /\ pc[r] = "formula_only"
    /\ UNCHANGED notMain
    /\ IF RenderCallReads \subseteq FormulaPathAssigned
       THEN /\ files' = write_text(write_text(files, OutDir(args[r]), "index.html", r),
                                   OutDir(args[r]), "README.txt", r)
            /\ written' = [written EXCEPT ![r] = @ \cup {"index.html", "README.txt"}]
            /\ last_writer' = [last_writer EXCEPT ![OutDir(args[r])] =
                                  [f \in FileNames |->
                                     IF f \in {"index.html", "README.txt"} THEN r ELSE @[f]]]
            /\ pc' = [pc EXCEPT ![r] = "done"]
            /\ UNCHANGED <<slugify_bound, args, exc, m_smiles, m_mol, m_facts, m_bullets, dirs>>
       ELSE Raise(r, "UnboundLocalError", files)

\* Line 282, mol_from_any (lines 78-92): the name translated when one was
\* given, the structure parsed (from the InChI when one was given, from the
\* SMILES otherwise), hydrogens added.
MolFromAny(r) ==
    /\ pc[r] = "mol_from_any"
    /\ UNCHANGED notMain
    /\ \E o \in (IF args[r].kind = "name" THEN name_to_smiles_outcomes
                 ELSE {[exc |-> "",
                        smi |-> IF args[r].kind = "smiles" THEN args[r].value ELSE None]}) :
          IF o.exc # ""
          THEN Raise(r, o.exc, files)
          ELSE LET m == ParseStructure(IF args[r].kind = "inchi" THEN args[r].value
                                       ELSE o.smi)
               IN IF m = NoMol
                  THEN Raise(r, "ValueError", files)
                  ELSE /\ m_mol' = [m_mol EXCEPT ![r] = m]
                       /\ m_smiles' = [m_smiles EXCEPT ![r] =
                                       IF o.smi # None THEN o.smi ELSE <<"MolToSmiles">>]
                       /\ pc' = [pc EXCEPT ![r] = "compute_facts"]
                       /\ UNCHANGED <<slugify_bound, args, exc, m_facts, m_bullets, dirs,
                                      files, written, last_writer>>

\* Line 283.
ComputeFacts(r) ==
    /\ pc[r] = "compute_facts"
    /\ UNCHANGED notMain
    /\ m_facts' = [m_facts EXCEPT ![r] = compute_facts(m_mol[r])]
    /\ pc' = [pc EXCEPT ![r] = "make_artifacts"]
    /\ UNCHANGED <<slugify_bound, args, exc, m_smiles, m_mol, m_bullets, dirs,
                   files, written, last_writer>>

\* Line 284, make_artifacts up to the write of model.sdf (lines 149-152).
MakeArtifactsSdf(r) ==
    /\ pc[r] = "make_artifacts"
    /\ UNCHANGED notMain
    /\ \/ Raise(r, "EngineError", files)
       \/ \E fs \in FailedWrites(files, OutDir(args[r]), "model.sdf", r) :
             Raise(r, "OSError", fs)
       \/ Wrote(r, "model.sdf", "structure_png")

\* make_artifacts, the 2D depiction (lines 155-162).
MakeArtifactsPng(r) ==
    /\ pc[r] = "structure_png"
    /\ UNCHANGED notMain
    /\ \/ Raise(r, "EngineError", files)
       \/ \E fs \in FailedWrites(files, OutDir(args[r]), "structure.png", r) :
             Raise(r, "OSError", fs)
       \/ Wrote(r, "structure.png", "bullets")

\* Lines 285-287: the bullets.
Bullets(r) ==
    /\ pc[r] = "bullets"
    /\ UNCHANGED notMain
    /\ m_bullets' = [m_bullets EXCEPT ![r] = main_bullets(ArgName(args[r]), m_facts[r].du)]
    /\ pc' = [pc EXCEPT ![r] = "render_html"]
    /\ UNCHANGED <<slugify_bound, args, exc, m_smiles, m_mol, m_facts, dirs,
                   files, written, last_writer>>

\* Line 289, render_html (lines 224-240; the definition at lines 164-174 is
\* replaced by it): the template is read and rendered, index.html written.
RenderHtml(r) ==
    /\ pc[r] = "render_html"
    /\ UNCHANGED notMain
    /\ \/ Raise(r, "TemplateError", files)
       \/ \E fs \in FailedWrites(files, OutDir(args[r]), "index.html", r) :
             Raise(r, "OSError", fs)
       \/ Wrote(r, "index.html", "voiceover")

\* Lines 291-292: make_script, and voiceover.txt written.
WriteVoiceover(r) ==
    /\ pc[r] = "voiceover"
    /\ UNCHANGED notMain
    /\ \/ \E fs \in FailedWrites(files, OutDir(args[r]), "voiceover.txt", r) :
             Raise(r, "OSError", fs)
       \/ Wrote(r, "voiceover.txt", "captions")

\* Line 293: captions.srt written.
WriteCaptions(r) ==
    /\ pc[r] = "captions"
    /\ UNCHANGED notMain
    /\ \/ \E fs \in FailedWrites(files, OutDir(args[r]), "captions.srt", r) :
             Raise(r, "OSError", fs)
       \/ Wrote(r, "captions.srt", "youtube")

\* Lines 295-302: the description rendered and written, the closing prints.
WriteYoutube(r) ==
    /\ pc[r] = "youtube"
    /\ UNCHANGED notMain
    /\ \/ Raise(r, "TemplateError", files)
       \/ \E fs \in FailedWrites(files, OutDir(args[r]), "YOUTUBE_DESCRIPTION.md", r) :
             Raise(r, "OSError", fs)
       \/ Wrote(r, "YOUTUBE_DESCRIPTION.md", "done")

------------------------------------------------------------------------------
(* The three pure functions, each applied once to its arguments            *)

CallComputeFacts ==
    /\ f_pc = "call"
    /\ UNCHANGED notFacts
    /\ f_pc' = "ret"
    /\ f_ret' = compute_facts(f_mol)
    /\ UNCHANGED f_mol

------------------------------------------------------------------------------
(* Specifications                                                          *)

\* main: every run at its first statement.  The name slugify is bound or
\* not, as the environment that calls main() left the module's namespace.
Init ==
    /\ slugify_bound \in BOOLEAN
    /\ args \in [Runs -> ArgsSet]
    /\ pc = [r \in Runs |-> "start"]
    /\ exc = [r \in Runs |-> ""]
    /\ m_smiles = [r \in Runs |-> None]
    /\ m_mol = [r \in Runs |-> NoMol]
    /\ m_facts = [r \in Runs |-> NoFacts]
    /\ m_bullets = [r \in Runs |-> <<>>]
    /\ dirs = {}
    /\ files = [d \in Dirs |-> [f \in FileNames |-> NoFile]]
    /\ written = [r \in Runs |-> {}]
    /\ last_writer = [d \in Dirs |-> [f \in FileNames |-> 0]]
    /\ n_pc = "idle"
    /\ n_name = <<>>
    /\ tmp = NoTmp
    /\ n_smi = None
    /\ n_exc = ""
    /\ n_exit = "not run"
    /\ n_created = {}
    /\ n_read = None
    /\ f_pc = "idle"
    /\ f_mol = NoMol
    /\ f_ret = NoFacts
    /\ s_pc = "idle"
    /\ s_in = <<>>
    /\ s_ret = [voiceover |-> <<>>, srt |-> <<>>]
    /\ b_pc = "idle"
    /\ b_args = <<>>
    /\ b_ret = <<>>

Next ==
    \E r \in Runs :
      \/ Start(r)
      \/ FormulaOnly(r)
      \/ MolFromAny(r)
      \/ ComputeFacts(r)
      \/ MakeArtifactsSdf(r)
      \/ MakeArtifactsPng(r)
      \/ Bullets(r)
      \/ RenderHtml(r)
      \/ WriteVoiceover(r)
      \/ WriteCaptions(r)
      \/ WriteYoutube(r)

Spec == Init /\ [][Next]_vars

\* name_to_smiles called on its own.
InitNts ==
    /\ slugify_bound = FALSE
    /\ args = <<>>
    /\ pc = [r \in Runs |-> "idle"]
    /\ exc = [r \in Runs |-> ""]
    /\ m_smiles = [r \in Runs |-> None]
    /\ m_mol = [r \in Runs |-> NoMol]
    /\ m_facts = [r \in Runs |-> NoFacts]
    /\ m_bullets = [r \in Runs |-> <<>>]
    /\ dirs = {}
    /\ files = [d \in Dirs |-> [f \in FileNames |-> NoFile]]
    /\ written = [r \in Runs |-> {}]
    /\ last_writer = [d \in Dirs |-> [f \in FileNames |-> 0]]
    /\ n_pc = "mkstemp_in"
    /\ n_name \in NtsNames
    /\ tmp = NoTmp
    /\ n_smi = None
    /\ n_exc = ""
    /\ n_exit = "not run"
    /\ n_created = {}
    /\ n_read = None
    /\ f_pc = "idle"
    /\ f_mol = NoMol
    /\ f_ret = NoFacts
    /\ s_pc = "idle"
    /\ s_in = <<>>
    /\ s_ret = [voiceover |-> <<>>, srt |-> <<>>]
    /\ b_pc = "idle"
    /\ b_args = <<>>
    /\ b_ret = <<>>

NextNts ==
    \/ mkstemp_in
    \/ mkstemp_out
    \/ write_request
    \/ check_call
    \/ read_response
    \/ unlink_in
    \/ unlink_out
    \/ nts_exit

SpecNts == InitNts /\ [][NextNts]_vars

\* compute_facts applied to every modelled molecule.
InitFacts ==
    /\ slugify_bound = FALSE
    /\ args = <<>>
    /\ pc = [r \in Runs |-> "idle"]
    /\ exc = [r \in Runs |-> ""]
    /\ m_smiles = [r \in Runs |-> None]
    /\ m_mol = [r \in Runs |-> NoMol]
    /\ m_facts = [r \in Runs |-> NoFacts]
    /\ m_bullets = [r \in Runs |-> <<>>]
    /\ dirs = {}
    /\ files = [d \in Dirs |-> [f \in FileNames |-> NoFile]]
    /\ written = [r \in Runs |-> {}]
    /\ last_writer = [d \in Dirs |-> [f \in FileNames |-> 0]]
    /\ n_pc = "idle"
    /\ n_name = <<>>
    /\ tmp = NoTmp
    /\ n_smi = None
    /\ n_exc = ""
    /\ n_exit = "not run"
    /\ n_created = {}
    /\ n_read = None
    /\ f_pc = "call"
    /\ f_mol \in Molecules
    /\ f_ret = NoFacts
    /\ s_pc = "idle"
    /\ s_in = <<>>
    /\ s_ret = [voiceover |-> <<>>, srt |-> <<>>]
    /\ b_pc = "idle"
    /\ b_args = <<>>
    /\ b_ret = <<>>

NextFacts == CallComputeFacts

SpecFacts == InitFacts /\ [][NextFacts]_vars

\* make_script applied to every modelled argument list.
InitScript ==
    /\ slugify_bound = FALSE
    /\ args = <<>>
    /\ pc = [r \in Runs |-> "idle"]
    /\ exc = [r \in Runs |-> ""]
    /\ m_smiles = [r \in Runs |-> None]
    /\ m_mol = [r \in Runs |-> NoMol]
    /\ m_facts = [r \in Runs |-> NoFacts]
    /\ m_bullets = [r \in Runs |-> <<>>]
    /\ dirs = {}
    /\ files = [d \in Dirs |-> [f \in FileNames |-> NoFile]]
    /\ written = [r \in Runs |-> {}]
    /\ last_writer = [d \in Dirs |-> [f \in FileNames |-> 0]]
    /\ n_pc = "idle"
    /\ n_name = <<>>
    /\ tmp = NoTmp
    /\ n_smi = None
    /\ n_exc = ""
    /\ n_exit = "not run"
    /\ n_created = {}
    /\ n_read = None
    /\ f_pc = "idle"
    /\ f_mol = NoMol
    /\ f_ret = NoFacts
    /\ s_pc = "call"
    /\ s_in \in ScriptInputs
    /\ s_ret = [voiceover |-> <<>>, srt |-> <<>>]
    /\ b_pc = "idle"
    /\ b_args = <<>>
    /\ b_ret = <<>>

NextScript == CallMakeScript

SpecScript == InitScript /\ [][NextScript]_vars

\* Lines 285-287 of main for every modelled args.name: None in SMILES and
\* InChI mode, the name given otherwise.
InitBullets ==
    /\ slugify_bound = FALSE
    /\ args = <<>>
    /\ pc = [r \in Runs |-> "idle"]
    /\ exc = [r \in Runs |-> ""]
    /\ m_smiles = [r \in Runs |-> None]
    /\ m_mol = [r \in Runs |-> NoMol]
    /\ m_facts = [r \in Runs |-> NoFacts]
    /\ m_bullets = [r \in Runs |-> <<>>]
    /\ dirs = {}
    /\ files = [d \in Dirs |-> [f \in FileNames |-> NoFile]]
    /\ written = [r \in Runs |-> {}]
    /\ last_writer = [d \in Dirs |-> [f \in FileNames |-> 0]]
    /\ n_pc = "idle"
    /\ n_name = <<>>
    /\ tmp = NoTmp
    /\ n_smi = None
    /\ n_exc = ""
    /\ n_exit = "not run"
    /\ n_created = {}
    /\ n_read = None
    /\ f_pc = "idle"
    /\ f_mol = NoMol
    /\ f_ret = NoFacts
    /\ s_pc = "idle"
    /\ s_in = <<>>
    /\ s_ret = [voiceover |-> <<>>, srt |-> <<>>]
    /\ b_pc = "call"
    /\ \E kind \in {"name", "smiles", "inchi"}, n \in NamesUpTo(MaxFrags), du \in {0, 3, -1} :
          b_args = [kind |-> kind, name |-> IF kind = "name" THEN n ELSE None, du |-> du]
    /\ b_ret = <<>>

NextBullets == MainBullets

SpecBullets == InitBullets /\ [][NextBullets]_vars

------------------------------------------------------------------------------
(* Properties                                                              *)

BothTmp == {"in", "out"}
NtsLeft == n_pc \in {"returned", "raised"}

\* C1: once name_to_smiles has created both temporary files, neither is on
\* disk when it is left, whether it returns or raises (the external process
\* exiting non-zero, a missing or unusable response, a failed write).
C1_TempFilesRemoved ==
    (NtsLeft /\ n_created = BothTmp) => tmp = NoTmp

\* name_to_smiles was left by the external process's failure, both files
\* having been there, and both are gone.
C1_Witness ==
    /\ n_pc = "raised"
    /\ n_exc = "CalledProcessError"
    /\ n_created = BothTmp
    /\ tmp = NoTmp

\* C4: when the external process exits zero and the response holds no token
\* (it is empty or all whitespace), name_to_smiles raises its own
\* "OPSIN returned empty SMILES" error, no other exception, and returns
\* nothing.
C4_EmptyResponseRaisesOpsinError ==
    (NtsLeft /\ n_exit = "zero" /\ n_read # None /\ Len(split(n_read)) = 0)
        => (n_pc = "raised" /\ n_exc = "RuntimeError: OPSIN returned empty SMILES")

\* A time stamp of the form hh:mm:ss,mmm, and its value in milliseconds.
StampOk(ts) ==
    /\ Len(ts) = 12
    /\ ts[3] = ":" /\ ts[6] = ":" /\ ts[9] = ","
    /\ \A k \in {1, 2, 4, 5, 7, 8, 10, 11, 12} : ts[k] \in Digit
StampMs(ts) ==
    ((int(SubSeq(ts, 1, 2)) * 60 + int(SubSeq(ts, 4, 5))) * 60 + int(SubSeq(ts, 7, 8))) * 1000
      + int(SubSeq(ts, 10, 12))

\* C5: the captions are 4 blocks numbered 1..4, block i running from 3(i-1)
\* to 3i seconds as hh:mm:ss,mmm stamps: the first starts at 00:00:00,000
\* and each block ends where the next one starts.
C5_CaptionTimeline ==
    s_pc = "ret" =>
        /\ Len(s_ret.voiceover) = 4
        /\ Len(s_ret.srt) = 4
        /\ s_ret.srt[1].start = <<"0", "0", ":", "0", "0", ":", "0", "0", ",", "0", "0", "0">>
        /\ \A i \in 1 .. 4 :
              /\ s_ret.srt[i].index = Decimal(i)
              /\ s_ret.srt[i].text = s_ret.voiceover[i]
              /\ StampOk(s_ret.srt[i].start) /\ StampOk(s_ret.srt[i].end)
              /\ StampMs(s_ret.srt[i].start) = 3000 * (i - 1)
              /\ StampMs(s_ret.srt[i].end) = 3000 * i
              /\ i < 4 => s_ret.srt[i].end = s_ret.srt[i + 1].start

\* make_script has returned; its last block ends at 12 seconds.
C5_Witness ==
    /\ s_pc = "ret"
    /\ Len(s_ret.srt) = 4
    /\ s_ret.srt[4].end = <<"0", "0", ":", "0", "0", ":", "1", "2", ",", "0", "0", "0">>

Halogens == { <<"F">>, <<"C", "l">>, <<"B", "r">>, <<"I">> }
RECURSIVE SumCounts(_, _)
SumCounts(mol, syms) ==
    IF syms = {} THEN 0
    ELSE LET x == CHOOSE y \in syms : TRUE
         IN AtomCount(mol, x) + SumCounts(mol, syms \ {x})
Ethanol == (<<"C">> :> 2) @@ (<<"H">> :> 6) @@ (<<"O">> :> 1)
C8H12Br == (<<"C">> :> 8) @@ (<<"H">> :> 12) @@ (<<"B", "r">> :> 1)

\* C6: twice the DU compute_facts returns is exactly
\* 2 + 2C - (H + F + Cl + Br + I - N) for the molecule's true counts (a half
\* is kept); no other element's count enters; ethanol, C2H6O, has DU 0.
C6_DuExact ==
    f_pc = "ret" =>
        /\ f_ret.du = 2 + 2 * AtomCount(f_mol, <<"C">>)
                        - (AtomCount(f_mol, <<"H">>) + SumCounts(f_mol, Halogens)
                             - AtomCount(f_mol, <<"N">>))
        /\ f_mol = [atoms |-> Ethanol, charge |-> 0] =>
              (f_ret.formula = <<"C", "2", "H", "6", "O">> /\ f_ret.du = 0)

\* compute_facts has returned a half-integer DU for a molecule with oxygen
\* and a halogen.
C6_Witness ==
    /\ f_pc = "ret"
    /\ AtomCount(f_mol, <<"O">>) > 0
    /\ SumCounts(f_mol, Halogens) > 0
    /\ f_ret.du % 2 = 1

\* C7: the count compute_facts reads for a symbol is the molecule's count of
\* that element: the number written after the symbol, 1 when no digits
\* follow it, 0 when the symbol does not occur; Br and Cl do not count as B
\* and C; C8H12Br reads C=8, H=12, Br=1 and 0 for N, F, Cl, I.
C7_CountLookup ==
    f_pc = "ret" =>
        /\ f_ret.n.C = AtomCount(f_mol, <<"C">>)
        /\ f_ret.n.H = AtomCount(f_mol, <<"H">>)
        /\ f_ret.n.N = AtomCount(f_mol, <<"N">>)
        /\ f_ret.n.F = AtomCount(f_mol, <<"F">>)
        /\ f_ret.n.Cl = AtomCount(f_mol, <<"C", "l">>)
        /\ f_ret.n.Br = AtomCount(f_mol, <<"B", "r">>)
        /\ f_ret.n.I = AtomCount(f_mol, <<"I">>)
        /\ f_ret.nB = AtomCount(f_mol, <<"B">>)
        /\ f_mol = [atoms |-> C8H12Br, charge |-> 0] =>
              /\ f_ret.formula = <<"C", "8", "H", "1", "2", "B", "r">>
              /\ f_ret.n = [C |-> 8, H |-> 12, N |-> 0, F |-> 0, Cl |-> 0, Br |-> 1, I |-> 0]

\* compute_facts has returned for a molecule with chlorine and bromine and
\* neither carbon nor boron.
C7_Witness ==
    /\ f_pc = "ret"
    /\ {<<"C", "l">>, <<"B", "r">>} \subseteq DOMAIN f_mol.atoms
    /\ <<"C">> \notin DOMAIN f_mol.atoms /\ <<"B">> \notin DOMAIN f_mol.atoms
    /\ f_ret.n.C = 0 /\ f_ret.nB = 0

\* A run's output directory and the files of a finished structure-mode run.
OutDirOf(r) == OutDir(args[r])
StructureFiles == FileNames \ {"README.txt"}
Ended(r) == pc[r] \in {"done", "failed"}

\* C2: a formula-only run that no collaborator fails ends with README.txt in
\* its output directory and without model.sdf, voiceover.txt, captions.srt.
\* (Stated for the runs in which the name slugify is bound.)
C2_FormulaOnlyLeavesReadme ==
    \A r \in Runs :
        (slugify_bound /\ args[r].kind = "formula" /\ Ended(r)
           /\ exc[r] \in OwnErrors \cup {""})
        => /\ files[OutDirOf(r)]["README.txt"] # NoFile
           /\ \A f \in {"model.sdf", "voiceover.txt", "captions.srt"} :
                 files[OutDirOf(r)][f] = NoFile

\* C3: a structure-mode run that no collaborator fails ends at line 302 with
\* the six output files in its directory and no README.txt.
C3_StructureRunCompletes ==
    \A r \in Runs :
        (args[r].kind # "formula" /\ Ended(r) /\ exc[r] \in OwnErrors \cup {""})
        => /\ pc[r] = "done"
           /\ \A f \in StructureFiles : files[OutDirOf(r)][f] # NoFile
           /\ files[OutDirOf(r)]["README.txt"] = NoFile

\* The step at which a run fails changes none of the files the run had
\* written in full; a failed run stays failed and writes nothing more; no
\* step removes a directory.
C8_FailingStep ==
    \A r \in Runs :
        /\ (pc[r] # "failed" /\ pc'[r] = "failed") =>
              /\ \A f \in written[r] : files'[OutDirOf(r)][f] = files[OutDirOf(r)][f]
              /\ written'[r] = written[r]
        /\ pc[r] = "failed" =>
              /\ pc'[r] = "failed"
              /\ written'[r] = written[r]
              /\ \A d \in Dirs, f \in FileNames :
                    files'[d][f].by = r => files'[d][f] = files[d][f]
        /\ dirs \subseteq dirs'

\* Each file a failed run wrote in full is in its directory, whole unless
\* another run has written to it since.
C8_FailedRunState ==
    \A r \in Runs :
        pc[r] = "failed" =>
            \A f \in written[r] :
                /\ OutDirOf(r) \in dirs
                /\ files[OutDirOf(r)][f] # NoFile
                /\ files[OutDirOf(r)][f].by = r => files[OutDirOf(r)][f].whole

\* C8: when a run fails part-way, the files it had written in full stay on
\* disk as written and its output directory stays; the failing step touches
\* none of them, and the run executes nothing after it (no retry, no
\* cleanup).
C8_PartialOutputKept == [][C8_FailingStep]_vars /\ []C8_FailedRunState

\* A run has failed after writing model.sdf and structure.png, which are on
\* disk in its directory.
C8_Witness ==
    \E r \in Runs :
        /\ pc[r] = "failed"
        /\ exc[r] = "TemplateError"
        /\ written[r] = {"model.sdf", "structure.png"}
        /\ OutDirOf(r) \in dirs
        /\ \A f \in written[r] : files[OutDirOf(r)][f] = [by |-> r, whole |-> TRUE]

\* C9: concurrent runs into one directory are not synchronized: a file
\* written in full holds what the run that last wrote it wrote, and when the
\* runs of a directory have all completed, every file of it is its last
\* writer's, so the directory may mix the files of the two runs.
C9_LastWriterWins ==
    \A d \in Dirs, f \in FileNames :
          /\ files[d][f].whole => files[d][f].by = last_writer[d][f]
          /\ (\A r \in Runs : OutDirOf(r) = d => pc[r] = "done") =>
                files[d][f] = (IF last_writer[d][f] = 0 THEN NoFile
                               ELSE [by |-> last_writer[d][f], whole |-> TRUE])

\* Both runs completed in one directory, which holds model.sdf from run 1
\* and captions.srt from run 2.
C9_Witness ==
    /\ OutDirOf(1) = OutDirOf(2)
    /\ pc[1] = "done" /\ pc[2] = "done"
    /\ files[OutDirOf(1)]["model.sdf"] = [by |-> 1, whole |-> TRUE]
    /\ files[OutDirOf(1)]["captions.srt"] = [by |-> 2, whole |-> TRUE]

\* The place of a keyword in the scan of lines 184-197 (0: not a keyword).
ScanIndex(kw) ==
    IF \E k \in 1 .. Len(KeywordScan) : KeywordScan[k].kw = kw
    THEN CHOOSE k \in 1 .. Len(KeywordScan) : KeywordScan[k].kw = kw
    ELSE 0

\* C10: the bullets handed to the renderer end with the DU bullet, which
\* occurs once; before it come the sentences of exactly the keywords that
\* occur in the name given, one each, in the order of the scan (none in SMILES
\* and InChI mode).
C10_BulletsEndWithDu ==
    b_pc = "ret" =>
        LET n == Len(b_ret)
        IN /\ n >= 1
           /\ b_ret[n].kw = DuBullet(b_args.du).kw
           /\ b_ret[n].text = DuBullet(b_args.du).text
           /\ \A i \in 1 .. (n - 1) :
                 /\ ScanIndex(b_ret[i].kw) > 0
                 /\ b_ret[i].text = KeywordScan[ScanIndex(b_ret[i].kw)].text
           /\ \A i, j \in 1 .. (n - 1) :
                 i < j => ScanIndex(b_ret[i].kw) < ScanIndex(b_ret[j].kw)
           /\ {b_ret[i].kw : i \in 1 .. (n - 1)} =
                 IF b_args.kind = "name"
                 THEN {KeywordScan[k].kw : k \in {h \in 1 .. Len(KeywordScan) :
                                                    Contains(b_args.name, KeywordScan[h].kw)}}
                 ELSE {}

\* The bullets were made for a name in which "bromo" comes before "meth":
\* the meth, eth and bromo sentences in scan order, then the DU bullet.
C10_Witness ==
    /\ b_pc = "ret"
    /\ b_args.kind = "name"
    /\ b_args.name = <<"b", "r", "o", "m", "o", "m", "e", "t", "h">>
    /\ Len(b_ret) = 4
    /\ b_ret[1].kw = <<"m", "e", "t", "h">>
    /\ b_ret[3].kw = <<"b", "r", "o", "m", "o">>
    /\ b_ret[4] = DuBullet(b_args.du)

====
